---- MODULE Spec2Model ----
(***************************************************************************)
(* Model of homework.py: a bot that polls the homework-review API and      *)
(* forwards the status of the most recent homework to a Telegram chat.     *)
(*                                                                         *)
(* The functions of homework.py are operators on the values they receive;  *)
(* main() is a state machine whose program counter walks through the       *)
(* statements of one iteration of `while True`.  The review API, the       *)
(* Telegram bot and the wall clock are the environment: every call into    *)
(* them picks one of their possible outcomes.                              *)
(*                                                                         *)
(* Exceptions are named by the name the raising statement uses; the names  *)
(* MissingTokenError and InvalidResponseError are those homework.py        *)
(* imports from the exceptions module at line 12.                          *)
(*                                                                         *)
(* Python text is rendered in ASCII: the Russian log and message texts of  *)
(* the source are given in English, one distinct text per distinct source  *)
(* text, so that equality of texts is preserved.                           *)
(***************************************************************************)
EXTENDS Integers, Sequences, FiniteSets, TLC

VARIABLES
    tokens,              \* module globals PRACTICUM_TOKEN, TELEGRAM_TOKEN, TELEGRAM_CHAT_ID
    pc,                  \* position of main()
    timestamp,           \* main(): local `timestamp`, the poll cursor
    last_error_message,  \* main(): local `last_error_message`
    response,            \* main(): local `response` of the current iteration
    homeworks,           \* main(): local `homeworks` of the current iteration
    current_status,      \* main(): local `current_status` of the current iteration
    error,               \* exception raised in the try body of the current iteration
    cycle,               \* history of the current iteration (calls made, delivery, clock)
    prev,                \* history of the previous iteration
    last_delivered,      \* history: text of the last successfully delivered message
    token_checks,        \* history: number of calls of check_tokens()
    exit_error           \* exception that ended the process, "" while it runs

vars == <<tokens, pc, timestamp, last_error_message, response, homeworks,
          current_status, error, cycle, prev, last_delivered, token_checks,
          exit_error>>

----------------------------------------------------------------------------
(* Bounds of the model *)

\* longest `homeworks` list the review API returns
MaxHomeworks == 2
\* int(time.time()) reads a value in 1..MaxClock
MaxClock == 1

----------------------------------------------------------------------------
(* Constants of the program *)

RETRY_PERIOD == 600

\* HTTPStatus.OK
HTTP_OK == 200

\* Python's None where a string is expected
None == "<None>"

TokenNames == {"PRACTICUM_TOKEN", "TELEGRAM_TOKEN", "TELEGRAM_CHAT_ID"}

\* os.getenv gives None (unset), an empty string, or a non-empty string
TokenValues == {None, "", "secret"}

\* mutant: the verdicts of approved and rejected are exchanged
HOMEWORK_VERDICTS_swapped ==
    [s \in {"approved", "reviewing", "rejected"} |->
        CASE s = "approved"  -> "Work checked: the reviewer has remarks."
          [] s = "reviewing" -> "Work taken for review by the reviewer."
          [] s = "rejected"  -> "Work checked: the reviewer liked everything. Hooray!"]

HOMEWORK_VERDICTS ==
    [s \in {"approved", "reviewing", "rejected"} |->
        CASE s = "approved"  -> "Work checked: the reviewer liked everything. Hooray!"
          [] s = "reviewing" -> "Work taken for review by the reviewer."
          [] s = "rejected"  -> "Work checked: the reviewer has remarks."]

----------------------------------------------------------------------------
(* Values exchanged with the environment *)

\* status codes the review API answers with
StatusCodes == {HTTP_OK, 500}

\* the wall clock as read by int(time.time())
Clock == 1..MaxClock

\* values of the `current_date` field of a response
CurrentDates == {1000, 2000}

Names == {"X"}

Statuses == DOMAIN HOMEWORK_VERDICTS \cup {"unknown"}

\* An element of the `homeworks` list: `type` is its Python type; a dict may
\* lack either key.  Fields that are absent hold None.
Entry(type, has_status, status, has_name, name) ==
    [type |-> type, has_status |-> has_status, status |-> status,
     has_name |-> has_name, homework_name |-> name]

Entries ==
    {Entry("str", FALSE, None, FALSE, None)}
    \cup {Entry("dict", FALSE, None, TRUE, n) : n \in Names}
    \cup {Entry("dict", TRUE, s, FALSE, None) : s \in {"approved", "unknown"}}
    \cup {Entry("dict", TRUE, s, TRUE, n) : s \in Statuses, n \in Names}

\* the entries the review API puts after the most recent one
OlderEntries ==
    {Entry("str", FALSE, None, FALSE, None)}
    \cup {Entry("dict", TRUE, s, TRUE, n) : s \in {"approved", "unknown"}, n \in Names}

HomeworkLists ==
    {<<>>} \cup UNION {{<<e>> \o older : e \in Entries, older \in [1..n -> OlderEntries]} :
                          n \in 0..(MaxHomeworks - 1)}

\* A decoded JSON body: `type` is its Python type; a dict may lack the key
\* 'homeworks' and the key 'current_date'; `homeworks_type` is the Python
\* type of the value under 'homeworks'.
Body(type, has_hw, hw_type, hw, has_date, date) ==
    [type |-> type, has_homeworks |-> has_hw, homeworks_type |-> hw_type,
     homeworks |-> hw, has_current_date |-> has_date, current_date |-> date]

NoBody == Body("NoneType", FALSE, None, <<>>, FALSE, 0)

DateFields == {<<FALSE, 0>>} \cup {<<TRUE, d>> : d \in CurrentDates}

Bodies ==
    {NoBody, Body("list", FALSE, None, <<>>, FALSE, 0)}
    \cup {Body("dict", FALSE, None, <<>>, TRUE, d) : d \in {1000}}
    \cup {Body("dict", TRUE, "dict", <<>>, TRUE, d) : d \in {1000}}
    \cup {Body("dict", TRUE, "list", hw, df[1], df[2]) :
              hw \in HomeworkLists, df \in DateFields}

\* What requests.get and response.json() do: the transport fails
\* (requests.RequestException), or a response arrives with a status code and
\* content that decodes to `body` (decodes = FALSE: the content is not JSON).
Reply(transport_ok, code, decodes, body) ==
    [transport_ok |-> transport_ok, status_code |-> code,
     decodes |-> decodes, body |-> body]

Replies ==
    {Reply(FALSE, 0, FALSE, NoBody)}
    \cup {Reply(TRUE, c, FALSE, NoBody) : c \in StatusCodes}
    \cup {Reply(TRUE, c, TRUE, b) : c \in StatusCodes, b \in Bodies}

\* What bot.send_message does: delivers, or raises an exception of the class
\* named (ApiException and its subclasses, requests.RequestException and its
\* subclasses, or an exception outside both hierarchies).
BotOutcomes == {"ok", "ApiException", "RequestException", "Exception"}

----------------------------------------------------------------------------
(* Results of a call: a returned value or a raised exception *)

Return(v) == [exc |-> "", text |-> "", value |-> v]

Raise(type, text, dflt) == [exc |-> type, text |-> text, value |-> dflt]

NoError == [exc |-> "", text |-> ""]

\* <class '...'> as printed by f'{type(x)}'
TypeRepr(t) == "<class '" \o t \o "'>"

\* str(KeyError(msg)) is the repr of msg
KeyErrorStr(msg) == "'" \o msg \o "'"

----------------------------------------------------------------------------
(* exceptions.py and its import *)

\* the classes exceptions.py defines
exceptions_module == {"MissingTokenException", "InvalidResponseException"}

\* from exceptions import MissingTokenError, InvalidResponseError
imported_exceptions == {"MissingTokenError", "InvalidResponseError"}

----------------------------------------------------------------------------
(* check_tokens *)

\* mutant: `token_value is None`, an empty token passes
Falsy_none_only(token_value) == token_value = None

\* `not token_value`
Falsy(token_value) == token_value = None \/ token_value = ""

missing_tokens(toks) == {token_name \in DOMAIN toks : Falsy(toks[token_name])}

check_tokens(toks) ==
    IF missing_tokens(toks) # {}
    THEN Raise("MissingTokenError", "Not all required tokens are available", None)
    ELSE Return(None)

----------------------------------------------------------------------------
(* send_message *)

\* mutant: `except ApiException`, a transport failure of the bot is not caught
send_message_catches_api_only(exc) == exc = "ApiException"

\* except (ApiException, requests.RequestException)
send_message_catches(exc) == exc \in {"ApiException", "RequestException"}

\* send_message(bot, message), given what bot.send_message does
send_message(outcome) ==
    IF outcome = "ok" THEN Return(TRUE)
    ELSE IF send_message_catches(outcome) THEN Return(FALSE)
    ELSE Raise(outcome, "bot.send_message failed", FALSE)

----------------------------------------------------------------------------
(* get_api_answer *)

\* mutant: the status code is not looked at
get_api_answer_any_status(reply) ==
    IF ~reply.transport_ok
    THEN Raise("ConnectionError", "API connection error: timed out", NoBody)
    ELSE IF reply.decodes
    THEN Return(reply.body)
    ELSE Raise("JSONDecodeError", "Expecting value: line 1 column 1 (char 0)", NoBody)

get_api_answer(reply) ==
    IF ~reply.transport_ok
    THEN Raise("ConnectionError", "API connection error: timed out", NoBody)
    ELSE IF reply.status_code = HTTP_OK
    THEN IF reply.decodes
         THEN Return(reply.body)
         ELSE Raise("JSONDecodeError", "Expecting value: line 1 column 1 (char 0)",
                    NoBody)
    ELSE Raise("InvalidResponseError",
               "Invalid response: " \o ToString(reply.status_code), NoBody)

----------------------------------------------------------------------------
(* check_response *)

\* mutant: the type of the value under 'homeworks' is not checked
check_response_any_homeworks(resp) ==
    IF resp.type # "dict"
    THEN Raise("TypeError", "Wrong data type: " \o TypeRepr(resp.type), <<>>)
    ELSE IF ~resp.has_homeworks
    THEN Raise("KeyError",
               KeyErrorStr("Key \"homeworks\" is missing in the API response."), <<>>)
    ELSE Return(resp.homeworks)

\* mutant: an empty list is refused with an error
check_response_rejects_empty(resp) ==
    IF resp.type # "dict"
    THEN Raise("TypeError", "Wrong data type: " \o TypeRepr(resp.type), <<>>)
    ELSE IF ~resp.has_homeworks
    THEN Raise("KeyError",
               KeyErrorStr("Key \"homeworks\" is missing in the API response."), <<>>)
    ELSE IF resp.homeworks_type # "list"
    THEN Raise("TypeError",
               "Wrong format of the data under key \"homeworks\": "
                   \o TypeRepr(resp.homeworks_type) \o ".", <<>>)
    ELSE IF resp.homeworks = <<>>
    THEN Raise("KeyError", KeyErrorStr("The list of homeworks is empty."), <<>>)
    ELSE Return(resp.homeworks)

check_response(resp) ==
    IF resp.type # "dict"
    THEN Raise("TypeError", "Wrong data type: " \o TypeRepr(resp.type), <<>>)
    ELSE IF ~resp.has_homeworks
    THEN Raise("KeyError",
               KeyErrorStr("Key \"homeworks\" is missing in the API response."), <<>>)
    ELSE IF resp.homeworks_type # "list"
    THEN Raise("TypeError",
               "Wrong format of the data under key \"homeworks\": "
                   \o TypeRepr(resp.homeworks_type) \o ".", <<>>)
    ELSE Return(resp.homeworks)

----------------------------------------------------------------------------
(* parse_status *)

\* mutant: HOMEWORK_VERDICTS.get(status, status), an unknown status is passed on
parse_status_any_status(homework) ==
    IF homework.type # "dict"
    THEN Raise("TypeError", "Wrong format of homework: " \o TypeRepr(homework.type), "")
    ELSE IF ~homework.has_status
    THEN Raise("KeyError", KeyErrorStr("Required field is missing: status"), "")
    ELSE IF ~homework.has_name
    THEN Raise("KeyError", KeyErrorStr("Required field is missing: homework_name"), "")
    ELSE Return("The review status of homework \"" \o homework.homework_name
                    \o "\" has changed. "
                    \o (IF homework.status \in DOMAIN HOMEWORK_VERDICTS
                        THEN HOMEWORK_VERDICTS[homework.status]
                        ELSE homework.status))

parse_status(homework) ==
    IF homework.type # "dict"
    THEN Raise("TypeError", "Wrong format of homework: " \o TypeRepr(homework.type), "")
    ELSE IF ~homework.has_status
    THEN Raise("KeyError", KeyErrorStr("Required field is missing: status"), "")
    ELSE IF ~homework.has_name
    THEN Raise("KeyError", KeyErrorStr("Required field is missing: homework_name"), "")
    ELSE IF homework.status \notin DOMAIN HOMEWORK_VERDICTS
    THEN Raise("ValueError", "Unknown homework status: " \o homework.status, "")
    ELSE Return("The review status of homework \"" \o homework.homework_name
                    \o "\" has changed. " \o HOMEWORK_VERDICTS[homework.status])

----------------------------------------------------------------------------
(* main *)

\* response.get('current_date', int(time.time()))
response_get_current_date(resp, now) ==
    IF resp.has_current_date THEN resp.current_date ELSE now

\* mutant: the cursor is advanced whether or not the message was delivered
next_timestamp_always(sent, resp, now, old) == response_get_current_date(resp, now)

\* mutant: a failed delivery resets the cursor to the clock
next_timestamp_or_now(sent, resp, now, old) ==
    IF sent THEN response_get_current_date(resp, now) ELSE now

\* `if send_message(bot, current_status): timestamp = ...`: the cursor after
\* the delivery step
next_timestamp(sent, resp, now, old) ==
    IF sent THEN response_get_current_date(resp, now) ELSE old

\* mutant: `latest_homework = homeworks[-1]`
latest_homework_last(hws) == hws[Len(hws)]

\* latest_homework = homeworks[0]
latest_homework(hws) == hws[1]

\* mutant: last_error_message is not assigned before the loop
initial_last_error_message_unbound == None

\* last_error_message = ''
initial_last_error_message == ""

\* mutant: `except (ConnectionError, InvalidResponseError, TypeError, KeyError)`
main_catches_listed(exc) ==
    exc \in {"ConnectionError", "InvalidResponseError", "TypeError", "KeyError"}

\* `except Exception`: every exception class of the model derives from Exception
main_catches(exc) == TRUE

\* message = f'... {error}'
error_message(err) == "Program failure: " \o err.text

\* mutant: the new text is reported but never stored
next_last_error_message_keep(message, last) == last

\* `if message != last_error_message: ... last_error_message = message`
next_last_error_message(message, last) ==
    IF message # last THEN message ELSE last

\* History of one iteration: the calls made in order, the cursor, the last
\* delivered text and the last error text at its start, the reply of the API
\* (status_code 0: none arrived), what the bot did, the result of the
\* delivery, the clock value the cursor was set from, and what the handler and
\* the finally block did.
NewCycle == [trace |-> <<>>, cursor_before |-> 0, baseline |-> "",
             error_before |-> "", status_code |-> 0, clock |-> 0,
             attempts |-> 0, sent_text |-> "", bot |-> "none", delivery |-> "none",
             caught |-> FALSE, reported |-> FALSE, slept |-> 0]

NoPrev == [status |-> "", delivery |-> "none"]

Init ==
    /\ tokens \in [TokenNames -> TokenValues]
    /\ pc = "start"
    /\ timestamp = 0
    /\ last_error_message = None
    /\ response = NoBody
    /\ homeworks = <<>>
    /\ current_status = ""
    /\ error = NoError
    /\ cycle = NewCycle
    /\ prev = NoPrev
    /\ last_delivered = ""
    /\ token_checks = 0
    /\ exit_error = ""

\* Lines 129-132: check_tokens(), TeleBot(...), timestamp, last_error_message
Start ==
    /\ pc = "start"
    /\ LET r == check_tokens(tokens) IN
       \E now \in Clock :
          /\ cycle' = [cycle EXCEPT !.trace = <<"check_tokens">>]
          /\ token_checks' = token_checks + 1
          /\ IF r.exc # ""
             THEN /\ pc' = "terminated"
                  /\ exit_error' = r.exc
                  /\ UNCHANGED <<timestamp, last_error_message>>
             ELSE /\ pc' = "loop"
                  /\ timestamp' = now
                  /\ last_error_message' = initial_last_error_message
                  /\ UNCHANGED exit_error
    /\ UNCHANGED <<tokens, response, homeworks, current_status, error, prev,
                   last_delivered>>

\* Line 133: `while True`, the start of an iteration
Loop ==
    /\ pc = "loop"
    /\ pc' = "get_api_answer"
    /\ prev' = IF cycle.cursor_before = 0 THEN NoPrev
               ELSE [status |-> current_status, delivery |-> cycle.delivery]
    /\ cycle' = [NewCycle EXCEPT !.cursor_before = timestamp,
                                 !.baseline = last_delivered,
                                 !.error_before = last_error_message]
    /\ response' = NoBody
    /\ homeworks' = <<>>
    /\ current_status' = ""
    /\ error' = NoError
    /\ UNCHANGED <<tokens, timestamp, last_error_message, last_delivered, token_checks, exit_error>>

\* Line 135: response = get_api_answer(timestamp)
GetApiAnswer ==
    /\ pc = "get_api_answer"
    /\ \E reply \in Replies :
          LET r == get_api_answer(reply) IN
          /\ cycle' = [cycle EXCEPT !.trace = Append(@, "get_api_answer"),
                                    !.status_code = reply.status_code]
          /\ IF r.exc # ""
             THEN /\ error' = [exc |-> r.exc, text |-> r.text]
                  /\ pc' = "except"
                  /\ UNCHANGED response
             ELSE /\ response' = r.value
                  /\ pc' = "check_response"
                  /\ UNCHANGED error
    /\ UNCHANGED <<tokens, timestamp, last_error_message, homeworks, current_status,
                   prev, last_delivered, token_checks, exit_error>>

\* Lines 136-138: homeworks = check_response(response); if homeworks
CheckResponse ==
    /\ pc = "check_response"
    /\ LET r == check_response(response) IN
          /\ cycle' = [cycle EXCEPT !.trace = Append(@, "check_response")]
          /\ IF r.exc # ""
             THEN /\ error' = [exc |-> r.exc, text |-> r.text]
                  /\ pc' = "except"
                  /\ UNCHANGED homeworks
             ELSE /\ homeworks' = r.value
                  /\ pc' = IF Len(r.value) > 0 THEN "parse_status" ELSE "finally"
                  /\ UNCHANGED error
    /\ UNCHANGED <<tokens, timestamp, last_error_message, response, current_status,
                   prev, last_delivered, token_checks, exit_error>>

\* Lines 139-140: current_status = parse_status(homeworks[0])
ParseStatus ==
    /\ pc = "parse_status"
    /\ LET r == parse_status(latest_homework(homeworks)) IN
          /\ cycle' = [cycle EXCEPT !.trace = Append(@, "parse_status")]
          /\ IF r.exc # ""
             THEN /\ error' = [exc |-> r.exc, text |-> r.text]
                  /\ pc' = "except"
                  /\ UNCHANGED current_status
             ELSE /\ current_status' = r.value
                  /\ pc' = "send_message"
                  /\ UNCHANGED error
    /\ UNCHANGED <<tokens, timestamp, last_error_message, response, homeworks,
                   prev, last_delivered, token_checks, exit_error>>

\* Lines 142-146: if send_message(bot, current_status): timestamp = ...
\* (line 143 runs only when send_message returned True; cycle.clock keeps the
\* clock value that line took the cursor from)
SendMessage ==
    /\ pc = "send_message"
    /\ \E outcome \in BotOutcomes, now \in Clock :
          LET r == send_message(outcome) IN
          /\ cycle' = [cycle EXCEPT !.trace = Append(@, "send_message"),
                                    !.attempts = @ + 1,
                                    !.sent_text = current_status,
                                    !.clock = IF r.exc = "" /\ r.value
                                                    /\ ~response.has_current_date
                                                 THEN now ELSE 0,
                                    !.bot = outcome,
                                    !.delivery = IF r.exc # "" THEN "raised"
                                                 ELSE IF r.value THEN "True"
                                                 ELSE "False"]
          /\ last_delivered' = IF outcome = "ok" THEN current_status
                               ELSE last_delivered
          /\ IF r.exc # ""
             THEN /\ error' = [exc |-> r.exc, text |-> r.text]
                  /\ pc' = "except"
                  /\ UNCHANGED timestamp
             ELSE /\ timestamp' = next_timestamp(r.value, response, now, timestamp)
                  /\ pc' = "finally"
                  /\ UNCHANGED error
    /\ UNCHANGED <<tokens, last_error_message, response, homeworks, current_status,
                   prev, token_checks, exit_error>>

\* Lines 149-154: except Exception as error
Except ==
    /\ pc = "except"
    /\ pc' = "finally"
    /\ IF main_catches(error.exc)
       THEN LET message == error_message(error) IN
            /\ cycle' = [cycle EXCEPT !.caught = TRUE,
                                      !.reported = (message # last_error_message)]
            /\ last_error_message' = next_last_error_message(message,
                                                             last_error_message)
       ELSE UNCHANGED <<cycle, last_error_message>>
    /\ UNCHANGED <<tokens, timestamp, response, homeworks, current_status, error,
                   prev, last_delivered, token_checks, exit_error>>

\* Lines 155-159: finally: time.sleep(RETRY_PERIOD); an exception that no
\* except clause caught leaves main() after the finally block
Finally ==
    /\ pc = "finally"
    /\ cycle' = [cycle EXCEPT !.trace = Append(@, "sleep"),
                              !.slept = @ + RETRY_PERIOD]
    /\ IF error.exc # "" /\ ~cycle.caught
       THEN /\ pc' = "terminated"
            /\ exit_error' = error.exc
       ELSE /\ pc' = "loop"
            /\ UNCHANGED exit_error
    /\ UNCHANGED <<tokens, timestamp, last_error_message, response, homeworks,
                   current_status, error, prev, last_delivered, token_checks>>

Next ==
    \/ Start
    \/ Loop
    \/ GetApiAnswer
    \/ CheckResponse
    \/ ParseStatus
    \/ SendMessage
    \/ Except
    \/ Finally

Spec == Init /\ [][Next]_vars

----------------------------------------------------------------------------
(* Vocabulary of the properties *)

Count(seq, x) == Cardinality({i \in DOMAIN seq : seq[i] = x})

Called(f) == \E i \in DOMAIN cycle.trace : cycle.trace[i] = f

\* the current iteration has run its finally block
Done == cycle.slept > 0

\* main() has passed the credential check and set up its locals
LoopStarted == timestamp # 0

\* the try body of the current iteration formatted a sentence
Parsed == current_status # ""

\* send_message was called in the current iteration and did not return True
DeliveryFailed == cycle.delivery \in {"False", "raised"}

----------------------------------------------------------------------------
(* C1 *)

\* C1: over two consecutive iterations that both format the same sentence,
\* the first of which delivered it, the second makes no delivery attempt
\* (one attempt in total).
C1_SameSentenceSentOnce ==
    (Done /\ Parsed /\ prev.delivery = "True" /\ prev.status = current_status)
        => cycle.attempts = 0

----------------------------------------------------------------------------
(* C2 *)

\* C2 as stated: after an iteration that reached delivery, a failed delivery
\* leaves the cursor where it was and a successful one sets it to the
\* current_date field of the response, which every response carries.
C2_CursorIsCurrentDate ==
    (Done /\ cycle.attempts = 1)
        => /\ DeliveryFailed => timestamp = cycle.cursor_before
           /\ cycle.delivery = "True"
                => response.has_current_date /\ timestamp = response.current_date

\* C2 amended: after an iteration that reached delivery, a failed delivery
\* leaves the cursor where it was; a successful one sets it to the
\* current_date field of the response when the response carries one, and to
\* the clock read at that moment when it does not.
C2_CursorAdvance ==
    (Done /\ cycle.attempts = 1)
        => /\ DeliveryFailed => timestamp = cycle.cursor_before
           /\ cycle.delivery = "True"
                => timestamp = IF response.has_current_date
                               THEN response.current_date
                               ELSE cycle.clock

C2_Witness ==
    /\ Done
    /\ cycle.delivery = "True"
    /\ ~response.has_current_date
    /\ cycle.cursor_before = 2000
    /\ timestamp = cycle.clock

----------------------------------------------------------------------------
(* C3 *)

\* C3: an iteration that formats a sentence makes a delivery attempt exactly
\* when the sentence differs from the last delivered one, the attempt carries
\* that sentence, and a successful attempt sets the cursor to the
\* current_date of the response.
C3_ChangeAnnouncedOnce ==
    (Done /\ Parsed)
        => /\ cycle.attempts = (IF current_status # cycle.baseline THEN 1 ELSE 0)
           /\ cycle.attempts = 1 => cycle.sent_text = current_status
           /\ (cycle.delivery = "True" /\ response.has_current_date)
                => timestamp = response.current_date

----------------------------------------------------------------------------
(* C4 *)

\* C4: when one of the three tokens is None or empty, main() ends with
\* MissingTokenError having called nothing but check_tokens; check_tokens
\* runs once, before the first iteration, and never again.
C4_MissingTokenStopsStartup ==
    /\ token_checks <= 1
    /\ pc # "start" => token_checks = 1
    /\ (\E n \in TokenNames : tokens[n] \in {None, ""})
         => /\ pc \in {"start", "terminated"}
            /\ ~LoopStarted
            /\ cycle.trace \in {<<>>, <<"check_tokens">>}
            /\ pc = "terminated" => exit_error = "MissingTokenError"
    /\ (\A n \in TokenNames : tokens[n] \notin {None, ""})
         => pc # "terminated"

C4_Witness ==
    /\ pc = "terminated"
    /\ tokens["PRACTICUM_TOKEN"] = "secret"
    /\ tokens["TELEGRAM_TOKEN"] = ""
    /\ tokens["TELEGRAM_CHAT_ID"] = "secret"
    /\ exit_error = "MissingTokenError"

----------------------------------------------------------------------------
(* C5 *)

LoopPcs == {"loop", "get_api_answer", "check_response", "parse_status",
            "send_message", "except", "finally"}

\* C5: once the loop has started the process never ends: main() is always at
\* a statement of the loop with a step to take, every exception raised in the
\* try body is handled, every finished iteration made exactly one fetch and
\* slept exactly once for RETRY_PERIOD, and the finally block is followed by
\* the next iteration and its fetch.
C5_LoopNeverEnds ==
    /\ [](LoopStarted =>
            /\ pc \in LoopPcs
            /\ exit_error = ""
            /\ ENABLED Next
            /\ Done =>
                 /\ pc = "loop"
                 /\ Count(cycle.trace, "get_api_answer") = 1
                 /\ Count(cycle.trace, "sleep") = 1
                 /\ cycle.slept = RETRY_PERIOD
                 /\ error.exc # "" => cycle.caught)
    /\ [][/\ pc = "finally" => pc' = "loop"
          /\ pc = "loop" => pc' = "get_api_answer"
          /\ pc = "get_api_answer" => Called("get_api_answer")']_vars

C5_Witness ==
    /\ Done
    /\ pc = "loop"
    /\ error.exc = "ValueError"
    /\ prev.delivery = "raised"

----------------------------------------------------------------------------
(* C6 *)

\* C6: in an iteration where no response arrived or the response status is
\* not 200, get_api_answer raises (ConnectionError, InvalidResponseError),
\* nothing is validated, parsed or sent, the cursor stays, and the loop goes on.
C6_FailedFetchSendsNothing ==
    (Called("get_api_answer") /\ cycle.status_code # HTTP_OK)
        => /\ error.exc = (IF cycle.status_code = 0 THEN "ConnectionError"
                           ELSE "InvalidResponseError")
           /\ ~Called("check_response")
           /\ ~Called("parse_status")
           /\ ~Called("send_message")
           /\ cycle.attempts = 0
           /\ timestamp = cycle.cursor_before
           /\ pc \in {"except", "finally", "loop"}

C6_Witness ==
    /\ Done
    /\ pc = "loop"
    /\ cycle.status_code = 500
    /\ cycle.cursor_before = 1000
    /\ timestamp = 1000

----------------------------------------------------------------------------
(* C7 *)

\* the shape error check_response owes a body, "" if it owes none
ShapeError(resp) ==
    IF resp.type # "dict" THEN "TypeError"
    ELSE IF ~resp.has_homeworks THEN "KeyError"
    ELSE IF resp.homeworks_type # "list" THEN "TypeError"
    ELSE ""

\* C7: when the body handed to check_response is not a dict, lacks
\* 'homeworks', or holds a non-list under it, check_response raises TypeError,
\* KeyError, TypeError respectively, and the iteration neither parses an entry
\* nor sends.
C7_ShapeErrorBeforeEntries ==
    (Called("check_response") /\ ShapeError(response) # "")
        => /\ error.exc = ShapeError(response)
           /\ ~Called("parse_status")
           /\ ~Called("send_message")
           /\ homeworks = <<>>
           /\ current_status = ""
           /\ cycle.attempts = 0

C7_Witness ==
    /\ Done
    /\ Called("check_response")
    /\ response.type = "dict"
    /\ response.has_homeworks
    /\ response.homeworks_type = "dict"
    /\ error.exc = "TypeError"

----------------------------------------------------------------------------
(* C8 *)

\* the entry handed to parse_status carries both fields and its status is
\* not a key of HOMEWORK_VERDICTS
UnknownStatus(homework) ==
    /\ homework.type = "dict"
    /\ homework.has_status
    /\ homework.has_name
    /\ homework.status \notin {"approved", "reviewing", "rejected"}

\* C8: when the entry parsed has a status outside approved, reviewing,
\* rejected, parse_status raises ValueError and yields no sentence; the
\* iteration sends nothing, keeps the cursor, and the error is handled by the
\* loop, which goes on.
C8_UnknownStatusIsRecoverable ==
    (Called("parse_status") /\ UnknownStatus(homeworks[1]))
        => /\ error.exc = "ValueError"
           /\ current_status = ""
           /\ ~Called("send_message")
           /\ cycle.attempts = 0
           /\ timestamp = cycle.cursor_before
           /\ pc \in {"except", "finally", "loop"}
           /\ Done => cycle.caught /\ pc = "loop"

C8_Witness ==
    /\ Done
    /\ pc = "loop"
    /\ Called("parse_status")
    /\ UnknownStatus(homeworks[1])
    /\ error.exc = "ValueError"
    /\ cycle.cursor_before = 2000

----------------------------------------------------------------------------
(* C9 *)

\* C9 as stated: whatever exception bot.send_message raises, send_message
\* returns False (and True exactly on delivery), the handler of main() is not
\* entered and last_error_message keeps its value.
C9_DeliveryFailureNeverRaises ==
    cycle.attempts = 1
        => /\ cycle.delivery = (IF cycle.bot = "ok" THEN "True" ELSE "False")
           /\ error = NoError
           /\ ~cycle.caught
           /\ last_error_message = cycle.error_before

\* C9 amended: send_message returns True exactly when bot.send_message
\* delivered, and returns False when it raised ApiException or
\* requests.RequestException; those failures do not enter the handler of
\* main() and leave last_error_message as it was.  Any other exception
\* leaves send_message and is handled by main() like the other errors of an
\* iteration.
C9_CaughtDeliveryFailureReturnsFalse ==
    cycle.attempts = 1
        => /\ (cycle.delivery = "True") <=> (cycle.bot = "ok")
           /\ cycle.bot \in {"ApiException", "RequestException"}
                => /\ cycle.delivery = "False"
                   /\ error = NoError
                   /\ ~cycle.caught
                   /\ last_error_message = cycle.error_before
           /\ cycle.bot \notin {"ok", "ApiException", "RequestException"}
                => /\ cycle.delivery = "raised"
                   /\ error.exc = cycle.bot
                   /\ Done => /\ cycle.caught
                              /\ last_error_message = error_message(error)

C9_Witness ==
    /\ Done
    /\ cycle.bot = "RequestException"
    /\ cycle.delivery = "False"
    /\ cycle.error_before # ""
    /\ last_error_message = cycle.error_before

----------------------------------------------------------------------------
(* C10 *)

\* C10: an iteration whose delivery failed leaves the cursor and the last
\* delivered text as they were, and an iteration that follows a failed
\* delivery and formats the same sentence attempts to deliver that sentence.
C10_FailedDeliveryIsRetried ==
    /\ (Done /\ cycle.attempts = 1 /\ DeliveryFailed)
         => /\ timestamp = cycle.cursor_before
            /\ last_delivered = cycle.baseline
    /\ (Done /\ Parsed /\ prev.delivery \in {"False", "raised"}
             /\ prev.status = current_status)
         => /\ cycle.attempts = 1
            /\ cycle.sent_text = current_status

C10_Witness ==
    /\ Done
    /\ Parsed
    /\ prev.delivery = "False"
    /\ prev.status = current_status
    /\ cycle.delivery = "True"
    /\ cycle.baseline # current_status
    /\ last_delivered = current_status

----------------------------------------------------------------------------
(* C11 *)

\* C11: when the handler of main() runs, the error is reported as new exactly
\* when its text differs from the last reported text, and its text is the
\* last reported text afterwards; so of a run of failures with one text only
\* the first is reported, and a failure with another text is reported and
\* its text stored.
C11_ErrorsDeduplicatedByText ==
    /\ cycle.caught
         => /\ cycle.reported <=> (error_message(error) # cycle.error_before)
            /\ last_error_message = error_message(error)
    /\ ~cycle.caught
         => /\ ~cycle.reported
            /\ LoopStarted /\ pc # "loop" => last_error_message = cycle.error_before

C11_Witness ==
    /\ Done
    /\ cycle.caught
    /\ ~cycle.reported
    /\ error.exc = "InvalidResponseError"
    /\ last_error_message = cycle.error_before

----------------------------------------------------------------------------
(* C12 *)

\* the sentence expected for status s and name n, verdict texts as in lines 30-32
ExpectedSentence(s, n) ==
    "The review status of homework \"" \o n \o "\" has changed. " \o
    (CASE s = "approved"  -> "Work checked: the reviewer liked everything. Hooray!"
       [] s = "reviewing" -> "Work taken for review by the reviewer."
       [] s = "rejected"  -> "Work checked: the reviewer has remarks.")

\* C12: for an entry that is a dict with a homework_name n and a status s among
\* approved, reviewing, rejected, parse_status returns the template sentence
\* with n and the verdict of s; for a dict lacking 'status' or 'homework_name'
\* it raises KeyError and returns nothing.
C12_ParseStatusSentence ==
    (Called("parse_status") /\ homeworks[1].type = "dict")
        => LET hw == homeworks[1] IN
           /\ (hw.has_status /\ hw.has_name
                  /\ hw.status \in {"approved", "reviewing", "rejected"})
                => /\ current_status = ExpectedSentence(hw.status, hw.homework_name)
                   /\ error.exc # "" => Called("send_message")
           /\ ~hw.has_status
                => /\ error = [exc |-> "KeyError",
                               text |-> "'Required field is missing: status'"]
                   /\ current_status = ""
           /\ (hw.has_status /\ ~hw.has_name)
                => /\ error = [exc |-> "KeyError",
                               text |-> "'Required field is missing: homework_name'"]
                   /\ current_status = ""

C12_Witness ==
    /\ Called("parse_status")
    /\ homeworks[1] = Entry("dict", TRUE, "rejected", TRUE, "X")
    /\ current_status = "The review status of homework \"X\" has changed. "
                            \o "Work checked: the reviewer has remarks."

----------------------------------------------------------------------------
(* C13 *)

\* C13: get_api_answer returns the body only for a response with status 200,
\* and does so for every such response whose content is JSON; a transport
\* failure is raised as ConnectionError; every other status is raised as the
\* invalid-response error, which carries the status code and is a class that
\* exceptions.py defines.
C13_FetchErrors ==
    Called("get_api_answer")
        => /\ Called("check_response") => cycle.status_code = HTTP_OK
           /\ cycle.status_code = HTTP_OK
                => Called("check_response") \/ error.exc = "JSONDecodeError"
           /\ cycle.status_code = 0 => error.exc = "ConnectionError"
           /\ cycle.status_code \notin {0, HTTP_OK}
                => /\ error.exc \in imported_exceptions
                   /\ error.text = "Invalid response: " \o ToString(cycle.status_code)
                   /\ error.exc \in exceptions_module

----------------------------------------------------------------------------
(* C14 *)

\* check_response was handed a well-formed body whose list is empty
EmptyList ==
    /\ Called("check_response")
    /\ ShapeError(response) = ""
    /\ response.homeworks = <<>>

\* C14: an iteration whose validated list is empty parses nothing, sends
\* nothing, raises nothing, leaves the cursor, the last delivered text and
\* the last reported error text as they were at its start, and goes to sleep.
C14_EmptyListIsNoOp ==
    EmptyList
        => /\ homeworks = <<>>
           /\ error = NoError
           /\ ~cycle.caught
           /\ ~Called("parse_status")
           /\ ~Called("send_message")
           /\ cycle.attempts = 0
           /\ current_status = ""
           /\ timestamp = cycle.cursor_before
           /\ last_delivered = cycle.baseline
           /\ last_error_message = cycle.error_before
           /\ pc \in {"finally", "loop"}
           /\ Done => pc = "loop" /\ cycle.slept = RETRY_PERIOD

C14_Witness ==
    /\ Done
    /\ EmptyList
    /\ cycle.cursor_before = 1000
    /\ cycle.baseline # ""
    /\ cycle.error_before # ""

----------------------------------------------------------------------------
(* C15 *)

\* C15: an iteration with a non-empty validated list parses once and sends at
\* most once, and what it does is what the entry at index zero alone
\* prescribes: if parse_status raises for that entry the iteration fails with
\* that error, sends nothing and keeps the cursor; otherwise its sentence is
\* the one parsed and sent, the only error possible is one raised by the bot,
\* and the cursor is kept or set from the response and the clock.
C15_OnlyFirstEntryCounts ==
    Called("parse_status")
        => /\ Len(homeworks) >= 1
           /\ Count(cycle.trace, "parse_status") = 1
           /\ Count(cycle.trace, "send_message") <= 1
           /\ cycle.attempts <= 1
           /\ LET r == parse_status(homeworks[1]) IN
              IF r.exc # ""
              THEN /\ error = [exc |-> r.exc, text |-> r.text]
                   /\ current_status = ""
                   /\ cycle.attempts = 0
                   /\ timestamp = cycle.cursor_before
              ELSE /\ current_status = r.value
                   /\ cycle.attempts = 1 => cycle.sent_text = r.value
                   /\ error.exc # "" => error.exc = cycle.bot
                   /\ Done => /\ cycle.attempts = 1
                              /\ timestamp =
                                    IF cycle.delivery = "True"
                                    THEN response_get_current_date(response, cycle.clock)
                                    ELSE cycle.cursor_before

C15_Witness ==
    /\ Done
    /\ Len(homeworks) >= 2
    /\ homeworks[1] = Entry("dict", TRUE, "reviewing", TRUE, "X")
    /\ homeworks[2] = Entry("dict", TRUE, "unknown", TRUE, "X")
    /\ cycle.delivery = "True"
    /\ cycle.sent_text = ExpectedSentence("reviewing", "X")
    /\ error = NoError

----------------------------------------------------------------------------
(* C16 *)

StatusSentences ==
    {ExpectedSentence(s, n) : s \in {"approved", "reviewing", "rejected"}, n \in Names}

\* C16: send_message is called at most once in an iteration, only after the
\* fetch, the validation and parse_status succeeded, and with the sentence
\* parse_status returned; an iteration whose fetch, validation or formatting
\* failed calls it not at all, the handler of main() included.
C16_OnlyStatusSentencesSent ==
    /\ cycle.attempts = Count(cycle.trace, "send_message")
    /\ cycle.attempts <= 1
    /\ cycle.attempts = 1
         => /\ cycle.status_code = HTTP_OK
            /\ ShapeError(response) = ""
            /\ Called("parse_status")
            /\ cycle.sent_text = current_status
            /\ cycle.sent_text \in StatusSentences
            /\ error.exc # "" => error.exc = cycle.bot
    /\ cycle.attempts = 0 => cycle.sent_text = ""
    /\ (error.exc # "" /\ error.exc \notin BotOutcomes) => cycle.attempts = 0

C16_Witness ==
    /\ Done
    /\ cycle.attempts = 1
    /\ cycle.delivery = "True"
    /\ cycle.sent_text \in StatusSentences
    /\ prev.delivery = "none"
    /\ cycle.error_before # ""
    /\ last_error_message = cycle.error_before

----------------------------------------------------------------------------
(* C17 *)

\* C17: last_error_message is bound, to the empty string, from startup on;
\* the first failure is compared with it, reported as new, stored, and the
\* iteration reaches sleep; the stored text is never emptied again, and an
\* iteration without a caught error leaves it as it was.
C17_DedupStateInitialised ==
    /\ LoopStarted => last_error_message # None
    /\ (pc = "loop" /\ cycle.trace = <<"check_tokens">>) => last_error_message = ""
    /\ (cycle.caught /\ cycle.error_before = "")
         => /\ cycle.reported
            /\ last_error_message = error_message(error)
            /\ last_error_message # ""
            /\ pc \in {"finally", "loop"}
            /\ Done => pc = "loop"
    /\ (LoopStarted /\ cycle.error_before # "") => last_error_message # ""
    /\ (Done /\ ~cycle.caught) => last_error_message = cycle.error_before

C17_Witness ==
    /\ Done
    /\ pc = "loop"
    /\ prev = NoPrev
    /\ cycle.caught
    /\ cycle.reported
    /\ cycle.error_before = ""
    /\ last_error_message # ""

====
